---------------------------- MODULE Spec2Model ----------------------------
(***************************************************************************)
(* A model of the travel_assistant ingestion pipeline, its configuration   *)
(* loading and its vector-store upsert and query.                          *)
(*                                                                         *)
(*   src/src/travel_assistant/core/config.py                  Settings     *)
(*   src/src/travel_assistant/services/ingestion_service.py   ingestion    *)
(*   src/src/travel_assistant/services/vector_store.py        upsert       *)
(*   src/scripts/run_ingestion.py                             script main  *)
(*                                                                         *)
(* Conventions.  A text is a sequence of one-character strings.  Python's  *)
(* None is the empty tuple <<>> and a present value v is <<v>>, so that an *)
(* optional integer can be compared with None.  A cryptographic digest is  *)
(* modelled as injective: the digest of a payload is the payload itself.   *)
(***************************************************************************)
EXTENDS Integers, Sequences, FiniteSets, TLC

VARIABLES
    \* ---- configuration (config.py, run_ingestion.py)
    env,          \* the TA_CHUNK_SIZE / TA_CHUNK_OVERLAP environment values
    settings,     \* None, or the Settings object the process holds
    cfg_pc,       \* "start" | "loaded" | "constructed" | "error"
    cfg_entry,    \* which entry point produced the settings: "none" | "load" | "main"
    cfg_error,    \* the message of the error raised while starting, or ""
    service,      \* None, or the constructed IngestionService's splitter parameters
    \* ---- ingestion (ingestion_service.py)
    dir,          \* the documents directory: file name -> what the loader yields for it
    ing,          \* the chunk_size / chunk_overlap of the IngestionService in use
    ing_pc,       \* "idle" | "running" | "done" | "failed"
    ing_error,    \* "" | "nodir" | "load" | "write"
    pdfs,         \* local `pdfs` of ingest_directory_to_jsonl
    next_pdf,     \* position in `pdfs` of the next document of the for loop
    all_chunks,   \* local `all_chunks`
    file,         \* the output file: [exists, rows]
    file0,        \* the output file as it was when the current run started
    loaded,       \* the documents load_pdf_pages was called on in the current run
    last_ids,     \* None, or the chunk_ids of the file written by the latest run that completed
                  \* before the current one started
    \* ---- vector store (vector_store.py)
    store,        \* the collection: a set of entries [id, document, metadata]
    store0,       \* the collection as it was when the current upsert_chunks call started
    up_pc,        \* "idle" | "running" | "returned" | "raised"
    up_error,     \* "" | "embed" | "mismatch" | "store"
    up_chunks,    \* argument `chunks` of the calls of this behaviour
    up_bs,        \* argument `batch_size`
    up_valid,     \* local `valid`
    up_i,         \* local `i`, the offset of the next batch in `valid`
    up_total,     \* local `total`
    embed_calls,  \* number of embedder calls made by the current call
    embed_ret,    \* the latest embedder call: texts given, vectors returned
    returned_once, \* an upsert_chunks call on up_chunks has returned normally
    query_call    \* the latest call of query: its arguments and how it ended

cfg_vars == <<env, settings, cfg_pc, cfg_entry, cfg_error, service>>
ing_vars == <<dir, ing, ing_pc, ing_error, pdfs, next_pdf, all_chunks, file,
              file0, loaded, last_ids>>
up_vars  == <<store, store0, up_pc, up_error, up_chunks, up_bs, up_valid, up_i,
              up_total, embed_calls, embed_ret, returned_once>>
q_vars   == <<query_call>>
vars     == <<cfg_vars, ing_vars, up_vars, q_vars>>

None == <<>>
Some(v) == <<v>>

-----------------------------------------------------------------------------
(* Bounds of the model.                                                    *)

\* pages of the first document of the directory
MaxPages == 2
\* pages of the second document of the directory
MaxPagesB == 1
\* length of the chunk list handed to upsert_chunks
MaxList == 3
\* largest batch_size handed to upsert_chunks
MaxBatch == 2

-----------------------------------------------------------------------------
(* Generic helpers.                                                        *)

Range(s) == {s[i] : i \in 1..Len(s)}

SeqsUpTo(S, n) == UNION {[1..k -> S] : k \in 0..n}

RECURSIVE Flatten(_)
Flatten(ss) == IF ss = <<>> THEN <<>> ELSE Head(ss) \o Flatten(Tail(ss))

\* str.strip() is empty: every character is whitespace
IsBlank(text) == \A i \in 1..Len(text) : text[i] = " "


-----------------------------------------------------------------------------
(* Settings (config.py).                                                   *)

\* chunk_size: int = Field(default=1000, ge=200, le=4000)
ChunkSizeDefault == 1000
ChunkSizeMin == 200
ChunkSizeMax == 4000
\* chunk_overlap: int = Field(default=200, ge=0, le=2000)
ChunkOverlapDefault == 200
ChunkOverlapMin == 0
ChunkOverlapMax == 2000

\* the values of TA_CHUNK_SIZE and TA_CHUNK_OVERLAP of the model: unset, at
\* and beside the field bounds, and between them
EnvChunkSizes ==
    {None} \cup {Some(n) : n \in {ChunkSizeMin - 1, ChunkSizeMin, 500, 2000,
                                  ChunkSizeMax, ChunkSizeMax + 1}}
EnvChunkOverlaps ==
    {None} \cup {Some(n) : n \in {ChunkOverlapMin - 1, ChunkOverlapMin, 199, 500,
                                  ChunkOverlapMax, ChunkOverlapMax + 1}}

\* the field values Settings() reads: the environment's, else the default
FieldValues(e) ==
    [chunk_size    |-> IF e.chunk_size # None THEN e.chunk_size[1] ELSE ChunkSizeDefault,
     chunk_overlap |-> IF e.chunk_overlap # None THEN e.chunk_overlap[1]
                       ELSE ChunkOverlapDefault]

\* the ge / le constraints of the two fields, checked by Settings()
FieldsValid(v) ==
    /\ ChunkSizeMin <= v.chunk_size
    /\ v.chunk_size <= ChunkSizeMax
    /\ ChunkOverlapMin <= v.chunk_overlap
    /\ v.chunk_overlap <= ChunkOverlapMax

\* a variant that lets chunk_overlap = chunk_size pass
validate_chunking_lenient(v) == ~(v.chunk_overlap > v.chunk_size)

\* validate_chunking: TRUE when it returns, FALSE when it raises
validate_chunking(v) == ~(v.chunk_overlap >= v.chunk_size)

ChunkingError == "chunk_overlap must be < chunk_size"
FieldError == "validation error"
SplitterError == "Got a larger chunk overlap than chunk size"

\* IngestionService.__init__: the splitter it constructs rejects an overlap
\* larger than the chunk size, and nothing else
splitter_accepts(v) == ~(v.chunk_overlap > v.chunk_size)

\* Settings.load(): cls(), then validate_chunking()
SettingsLoad ==
    /\ cfg_pc = "start"
    /\ cfg_entry' = "load"
    /\ LET v == FieldValues(env)
       IN  IF ~FieldsValid(v)
           THEN /\ cfg_pc' = "error"
                /\ cfg_error' = FieldError
                /\ settings' = None
           ELSE IF ~validate_chunking(v)
           THEN /\ cfg_pc' = "error"
                /\ cfg_error' = ChunkingError
                /\ settings' = None
           ELSE /\ cfg_pc' = "loaded"
                /\ cfg_error' = ""
                /\ settings' = Some(v)
    /\ UNCHANGED <<env, service>>
    /\ UNCHANGED <<ing_vars, up_vars, q_vars>>

\* IngestionService(settings), for settings that Settings.load() returned
ServiceFromLoaded ==
    /\ cfg_pc = "loaded"
    /\ IF splitter_accepts(settings[1])
       THEN /\ service' = settings
            /\ cfg_pc' = "constructed"
            /\ cfg_error' = ""
       ELSE /\ service' = None
            /\ cfg_pc' = "error"
            /\ cfg_error' = SplitterError
    /\ UNCHANGED <<env, settings, cfg_entry>>
    /\ UNCHANGED <<ing_vars, up_vars, q_vars>>

\* run_ingestion.py main(), lines 13-14: settings = Settings();
\* ingestion = IngestionService(settings)
ScriptMain ==
    /\ cfg_pc = "start"
    /\ cfg_entry' = "main"
    /\ LET v == FieldValues(env)
       IN  IF ~FieldsValid(v)
           THEN /\ cfg_pc' = "error"
                /\ cfg_error' = FieldError
                /\ settings' = None
                /\ service' = None
           ELSE IF ~splitter_accepts(v)
           THEN /\ cfg_pc' = "error"
                /\ cfg_error' = SplitterError
                /\ settings' = Some(v)
                /\ service' = None
           ELSE /\ cfg_pc' = "constructed"
                /\ cfg_error' = ""
                /\ settings' = Some(v)
                /\ service' = Some(v)
    /\ UNCHANGED env
    /\ UNCHANGED <<ing_vars, up_vars, q_vars>>

ConfigNext ==
    \/ SettingsLoad
    \/ ServiceFromLoaded
    \/ ScriptMain

-----------------------------------------------------------------------------
(* The documents directory and the loader (external collaborators).        *)

DocsDir == "docs"
\* the PDF names of the model, in ascending (sorted) order
PdfNames == <<"a.pdf", "b.pdf">>
\* a file of the directory that glob("*.pdf") does not match
OtherFile == "notes.txt"

IsPdf(name) == name \in Range(PdfNames)
NameRank(name) == CHOOSE i \in 1..Len(PdfNames) : PdfNames[i] = name

\* Page texts of the model.  One symbol stands for a run of 100 characters
\* (see StrLen), so that the chunk sizes the Settings bounds allow (>= 200)
\* split these texts into several chunks.
PageTexts == {<<"x", "y", "x">>, <<"x">>}

\* What the loader yields for one page: its text and, when the loader gives
\* one, a page_number (the page's 1-based position).
LoaderPages(pos) == [page_content : PageTexts, page_number : {None, Some(pos)}]

LoaderDocs(n) ==
    UNION {{d \in [1..k -> UNION {LoaderPages(p) : p \in 1..k}] :
                \A p \in 1..k : d[p] \in LoaderPages(p)} : k \in 0..n}

\* The directories of the model: any subset of the PDF names, each with any
\* loader output within its bound, beside the file that is no PDF.
DirOf(names, first, second) ==
    [n \in names \cup {OtherFile} |->
        IF n = PdfNames[1] THEN first ELSE IF n = PdfNames[2] THEN second ELSE <<>>]

Dirs ==
    {DirOf(names, first, second) :
        names \in SUBSET Range(PdfNames),
        first \in LoaderDocs(MaxPages),
        second \in LoaderDocs(MaxPagesB)}

\* pathlib.Path(docs_dir) / name
Path(parent, name) == [parent |-> parent, name |-> name]
\* str(pdf_path)
PathStr(pdf_path) == <<pdf_path.parent, pdf_path.name>>

\* a variant that lists the PDFs in descending order
list_pdfs_unsorted(d) ==
    LET names == {n \in DOMAIN d : IsPdf(n)}
    IN  [i \in 1..Cardinality(names) |->
            Path(DocsDir, CHOOSE n \in names :
                    Cardinality({m \in names : NameRank(m) > NameRank(n)}) = i - 1)]

\* list_pdfs: sorted(docs_dir.glob("*.pdf")), for a directory that exists
list_pdfs(d) ==
    LET names == {n \in DOMAIN d : IsPdf(n)}
    IN  [i \in 1..Cardinality(names) |->
            Path(DocsDir, CHOOSE n \in names :
                    Cardinality({m \in names : NameRank(m) < NameRank(n)}) = i - 1)]

\* load_pdf_pages, when the loader succeeds: one Document per page, whose
\* metadata holds the loader's own keys (its 0-based "page" and, when the
\* loader gives one, "page_number")
load_pdf_pages(d, pdf_path) ==
    LET doc == d[pdf_path.name]
    IN  [p \in 1..Len(doc) |->
            [page_content |-> doc[p].page_content,
             metadata |-> [page |-> p - 1, page_number |-> doc[p].page_number]]]

-----------------------------------------------------------------------------
(* The text splitter (langchain's RecursiveCharacterTextSplitter, for a    *)
(* text without separators: characters merged greedily into chunks).       *)

\* len(text), one symbol standing for 100 characters
StrLen(text) == 100 * Len(text)

\* _merge_splits: after a chunk is emitted, drop characters from its front
\* while more than chunk_overlap remain or the next character does not fit
RECURSIVE TrimFront(_, _, _, _)
TrimFront(cur, d, cs, co) ==
    IF StrLen(cur) > co \/ (StrLen(cur) + StrLen(<<d>>) > cs /\ StrLen(cur) > 0)
    THEN TrimFront(Tail(cur), d, cs, co)
    ELSE cur

RECURSIVE MergeSplits(_, _, _, _)
MergeSplits(rest, cur, cs, co) ==
    IF rest = <<>>
    THEN IF cur = <<>> THEN <<>> ELSE <<cur>>
    ELSE LET d == Head(rest)
         IN  IF StrLen(cur) + StrLen(<<d>>) > cs /\ cur # <<>>
             THEN <<cur>> \o MergeSplits(Tail(rest), TrimFront(cur, d, cs, co) \o <<d>>, cs, co)
             ELSE MergeSplits(Tail(rest), cur \o <<d>>, cs, co)

\* splitter.split_text(text): a blank text yields no chunk
split_text(text, s) ==
    IF IsBlank(text) THEN <<>>
    ELSE MergeSplits(text, <<>>, s.chunk_size, s.chunk_overlap)

-----------------------------------------------------------------------------
(* IngestionService: the pure part.                                        *)

\* a variant that salts the payload with whether a run completed before
make_chunk_id_salted(pdf_path, page_number, chunk_index, content) ==
    <<PathStr(pdf_path), page_number, chunk_index, content, last_ids # None>>

\* make_chunk_id: SHA-256 of the JSON payload
make_chunk_id(pdf_path, page_number, chunk_index, content) ==
    <<PathStr(pdf_path), page_number, chunk_index, content>>

\* the chunks chunk_pages makes of one page (the body of its outer loop)
page_chunks(page, pdf_path, s) ==
    LET page_num == page.metadata.page_number
        splits   == split_text(page.page_content, s)
    IN  [k \in 1..Len(splits) |->
            [content  |-> splits[k],
             metadata |-> [page         |-> page.metadata.page,
                           source_file  |-> pdf_path.name,
                           source_path  |-> PathStr(pdf_path),
                           page_number  |-> page_num,
                           chunk_index  |-> k - 1,
                           chunk_id     |-> make_chunk_id(
                                                pdf_path,
                                                IF page_num # None THEN page_num[1] ELSE -1,
                                                k - 1,
                                                splits[k])]]]

chunk_pages(pages, pdf_path, s) ==
    Flatten([p \in 1..Len(pages) |-> page_chunks(pages[p], pdf_path, s)])

\* the rows write_chunks_to_jsonl writes, one per chunk
jsonl_rows(chunks) ==
    [k \in 1..Len(chunks) |->
        [chunk_id |-> chunks[k].metadata.chunk_id,
         content  |-> chunks[k].content,
         metadata |-> chunks[k].metadata]]

\* a variant that appends to the file instead of rewriting it
write_chunks_appending(f, chunks) ==
    [exists |-> TRUE, rows |-> f.rows \o jsonl_rows(chunks)]

\* write_chunks_to_jsonl, when the write succeeds: open(..., "w") truncates
\* the file, then one row is written per chunk
write_chunks_to_jsonl(f, chunks) ==
    [exists |-> TRUE, rows |-> jsonl_rows(chunks)]

NoFile == [exists |-> FALSE, rows |-> <<>>]

ChunkIds(rows) == {rows[k].chunk_id : k \in 1..Len(rows)}

-----------------------------------------------------------------------------
(* IngestionService.ingest_directory_to_jsonl, step by step.               *)

\* The (chunk_size, chunk_overlap) pairs of the ingestion runs of the model:
\* all pass the Settings field bounds; the last one (overlap = size) is what
\* run_ingestion.py can construct a service with.
IngestSettings ==
    { [chunk_size |-> 200, chunk_overlap |-> 100],
      [chunk_size |-> 300, chunk_overlap |-> 0],
      [chunk_size |-> 200, chunk_overlap |-> 200] }

IngestIdle == ing_pc \in {"idle", "done", "failed"}

\* lines 172-177: the run starts, list_pdfs succeeds
StartIngest ==
    /\ IngestIdle
    /\ last_ids' = IF ing_pc = "done" THEN Some(ChunkIds(file.rows)) ELSE last_ids
    /\ pdfs' = list_pdfs(dir)
    /\ all_chunks' = <<>>
    /\ next_pdf' = 1
    /\ loaded' = <<>>
    /\ file0' = file
    /\ ing_pc' = "running"
    /\ ing_error' = ""
    /\ UNCHANGED <<dir, ing, file>>
    /\ UNCHANGED <<cfg_vars, up_vars, q_vars>>

\* lines 50-52 and 191-193: docs_dir does not exist, list_pdfs raises
StartIngestNoDir ==
    /\ IngestIdle
    /\ last_ids' = IF ing_pc = "done" THEN Some(ChunkIds(file.rows)) ELSE last_ids
    /\ pdfs' = <<>>
    /\ all_chunks' = <<>>
    /\ next_pdf' = 1
    /\ loaded' = <<>>
    /\ file0' = file
    /\ ing_pc' = "failed"
    /\ ing_error' = "nodir"
    /\ UNCHANGED <<dir, ing, file>>
    /\ UNCHANGED <<cfg_vars, up_vars, q_vars>>

\* lines 178-181: one iteration of the loop over pdfs
LoadAndChunk ==
    /\ ing_pc = "running"
    /\ next_pdf <= Len(pdfs)
    /\ LET pdf_path == pdfs[next_pdf]
           pages    == load_pdf_pages(dir, pdf_path)
           chunks   == chunk_pages(pages, pdf_path, ing)
       IN  /\ all_chunks' = all_chunks \o chunks
           /\ loaded' = Append(loaded, pdf_path)
    /\ next_pdf' = next_pdf + 1
    /\ UNCHANGED <<dir, ing, ing_pc, ing_error, pdfs, file, file0, last_ids>>
    /\ UNCHANGED <<cfg_vars, up_vars, q_vars>>

\* a variant that, when a load fails, writes the chunks gathered so far
LoadFailsKeepingPartial ==
    /\ ing_pc = "running"
    /\ next_pdf <= Len(pdfs)
    /\ loaded' = Append(loaded, pdfs[next_pdf])
    /\ file' = write_chunks_to_jsonl(file, all_chunks)
    /\ ing_pc' = "failed"
    /\ ing_error' = "load"
    /\ UNCHANGED <<dir, ing, pdfs, next_pdf, all_chunks, file0, last_ids>>
    /\ UNCHANGED <<cfg_vars, up_vars, q_vars>>

\* lines 72-74 and 191-193: the loader raises; load_pdf_pages logs and
\* re-raises, ingest_directory_to_jsonl logs and re-raises
LoadFails ==
    /\ ing_pc = "running"
    /\ next_pdf <= Len(pdfs)
    /\ loaded' = Append(loaded, pdfs[next_pdf])
    /\ ing_pc' = "failed"
    /\ ing_error' = "load"
    /\ UNCHANGED <<dir, ing, pdfs, next_pdf, all_chunks, file, file0, last_ids>>
    /\ UNCHANGED <<cfg_vars, up_vars, q_vars>>

\* lines 183-189: every document is chunked; the file is written; return
WriteJsonl ==
    /\ ing_pc = "running"
    /\ next_pdf > Len(pdfs)
    /\ file' = write_chunks_to_jsonl(file, all_chunks)
    /\ ing_pc' = "done"
    /\ UNCHANGED <<dir, ing, ing_error, pdfs, next_pdf, all_chunks, file0, loaded, last_ids>>
    /\ UNCHANGED <<cfg_vars, up_vars, q_vars>>

\* lines 162-164 and 191-193: the write raises, before the file is opened
\* (k = -1: the file is as it was) or after k rows were written to the
\* truncated file
WriteFails ==
    /\ ing_pc = "running"
    /\ next_pdf > Len(pdfs)
    /\ \E k \in -1..Len(all_chunks) :
          file' = IF k = -1 THEN file
                  ELSE write_chunks_to_jsonl(file, SubSeq(all_chunks, 1, k))
    /\ ing_pc' = "failed"
    /\ ing_error' = "write"
    /\ UNCHANGED <<dir, ing, pdfs, next_pdf, all_chunks, file0, loaded, last_ids>>
    /\ UNCHANGED <<cfg_vars, up_vars, q_vars>>

IngestNext ==
    \/ StartIngest
    \/ StartIngestNoDir
    \/ LoadAndChunk
    \/ LoadFails
    \/ WriteJsonl
    \/ WriteFails

-----------------------------------------------------------------------------
(* Initial values of the three parts.                                      *)

\* no call of query was made
NoQuery == [pc |-> "idle", error |-> "", top_k |-> 0, where |-> None, result |-> <<>>]

CfgIdle ==
    /\ env = [chunk_size |-> None, chunk_overlap |-> None]
    /\ settings = None
    /\ cfg_pc = "start"
    /\ cfg_entry = "none"
    /\ cfg_error = ""
    /\ service = None

IngIdle ==
    /\ ing_pc = "idle"
    /\ ing_error = ""
    /\ pdfs = <<>>
    /\ next_pdf = 1
    /\ all_chunks = <<>>
    /\ file = NoFile
    /\ file0 = NoFile
    /\ loaded = <<>>
    /\ last_ids = None

UpIdle ==
    /\ store = {}
    /\ store0 = {}
    /\ up_pc = "idle"
    /\ up_error = ""
    /\ up_chunks = <<>>
    /\ up_bs = 1
    /\ up_valid = <<>>
    /\ up_i = 0
    /\ up_total = 0
    /\ embed_calls = 0
    /\ embed_ret = [asked |-> 0, got |-> 0]
    /\ returned_once = FALSE
    /\ query_call = NoQuery

\* the output file as an earlier run left it, when the first document had
\* one page of another text
StaleFile ==
    write_chunks_to_jsonl(
        NoFile,
        chunk_pages(<<[page_content |-> <<"o">>,
                       metadata |-> [page |-> 0, page_number |-> Some(1)]]>>,
                    Path(DocsDir, PdfNames[1]),
                    [chunk_size |-> 200, chunk_overlap |-> 100]))

\* an ingestion service over some directory, its output path free or
\* holding the file of an earlier run; no configuration step and no vector
\* store
IngestInit ==
    /\ dir \in Dirs
    /\ ing \in IngestSettings
    /\ ing_pc = "idle"
    /\ ing_error = ""
    /\ pdfs = <<>>
    /\ next_pdf = 1
    /\ all_chunks = <<>>
    /\ loaded = <<>>
    /\ last_ids = None
    /\ file \in {NoFile, StaleFile}
    /\ file0 = file
    /\ CfgIdle
    /\ UpIdle

SpecIngest == IngestInit /\ [][IngestNext]_vars

-----------------------------------------------------------------------------
(* VectorStoreService: the pure part.                                      *)

\* DocumentChunk.text, which upsert_chunks reads: the chunk's content
chunk_text(c) == c.content

\* _chunk_id: SHA-256 of "source_file|page_number|chunk_id|md5(content)"
_chunk_id(chunk) ==
    <<chunk.metadata.source_file, chunk.metadata.page_number,
      chunk.metadata.chunk_id, chunk.content>>

\* the vector the embedder gives for a text (a deterministic model)
Embedding(text) == <<"vector", text>>

\* one (id, embedding, metadata, document) tuple handed to collection.upsert
Entry(c) ==
    [id        |-> _chunk_id(c),
     embedding |-> Embedding(chunk_text(c)),
     metadata  |-> c.metadata,
     document  |-> chunk_text(c)]

Entries(batch) == [k \in 1..Len(batch) |-> Entry(batch[k])]

Keys(st) == {e.id : e \in st}

\* a variant that inserts every tuple as a new entry, under an id of its own
collection_insert(st, entries) ==
    st \cup {[entries[k] EXCEPT !.id = <<@, Cardinality(st) + k>>] : k \in 1..Len(entries)}

\* collection.upsert: insert-or-replace by id; of two tuples of one call
\* with the same id the later one stays
collection_upsert(st, entries) ==
    LET ids  == {entries[k].id : k \in 1..Len(entries)}
        last == {k \in 1..Len(entries) :
                    \A m \in (k + 1)..Len(entries) : entries[m].id # entries[k].id}
    IN  {e \in st : e.id \notin ids} \cup {entries[k] : k \in last}

\* a variant that filters nothing
valid_chunks_unfiltered(chunks) == chunks

\* valid = [c for c in chunks if c.text and c.text.strip()]
valid_chunks(chunks) ==
    LET NotBlank(c) == ~IsBlank(chunk_text(c))
    IN  SelectSeq(chunks, NotBlank)

Min(a, b) == IF a <= b THEN a ELSE b

\* batch = valid[i:i + batch_size]
current_batch == SubSeq(up_valid, up_i + 1, Min(up_i + up_bs, Len(up_valid)))

-----------------------------------------------------------------------------
(* VectorStoreService.upsert_chunks, batch by batch.                       *)

\* lines 83-87: the call starts; with nothing valid it returns 0 at once
UpsertStart ==
    /\ up_pc # "running"
    /\ \E bs \in 1..MaxBatch : up_bs' = bs
    /\ up_valid' = valid_chunks(up_chunks)
    /\ up_i' = 0
    /\ up_total' = 0
    /\ up_error' = ""
    /\ store0' = store
    /\ embed_calls' = 0
    /\ embed_ret' = [asked |-> 0, got |-> 0]
    /\ up_pc' = IF up_valid' = <<>> THEN "returned" ELSE "running"
    /\ returned_once' = (returned_once \/ up_valid' = <<>>)
    /\ UNCHANGED <<store, up_chunks>>
    /\ UNCHANGED <<cfg_vars, ing_vars, q_vars>>

BatchPending == up_pc = "running" /\ up_i < Len(up_valid)

\* lines 88-107: one iteration of the loop: the embedder returns one vector
\* per text and the collection takes the batch; after the last batch the
\* call returns total (line 109)
BatchUpserted ==
    /\ BatchPending
    /\ embed_calls' = embed_calls + 1
    /\ embed_ret' = [asked |-> Len(current_batch), got |-> Len(current_batch)]
    /\ store' = collection_upsert(store, Entries(current_batch))
    /\ up_total' = up_total + Len(current_batch)
    /\ up_i' = up_i + up_bs
    /\ up_pc' = IF up_i' >= Len(up_valid) THEN "returned" ELSE "running"
    /\ returned_once' = (returned_once \/ up_pc' = "returned")
    /\ UNCHANGED <<store0, up_error, up_chunks, up_bs, up_valid>>
    /\ UNCHANGED <<cfg_vars, ing_vars, q_vars>>

\* a variant that gives up every earlier batch when the embedder raises
EmbedderRaisesRollingBack ==
    /\ BatchPending
    /\ embed_calls' = embed_calls + 1
    /\ store' = store0
    /\ up_pc' = "raised"
    /\ up_error' = "embed"
    /\ UNCHANGED <<store0, up_chunks, up_bs, up_valid, up_i, up_total,
                   embed_ret, returned_once>>
    /\ UNCHANGED <<cfg_vars, ing_vars, q_vars>>

\* line 92: embed_texts raises; the error leaves upsert_chunks
EmbedderRaises ==
    /\ BatchPending
    /\ embed_calls' = embed_calls + 1
    /\ up_pc' = "raised"
    /\ up_error' = "embed"
    /\ UNCHANGED <<store, store0, up_chunks, up_bs, up_valid, up_i, up_total,
                   embed_ret, returned_once>>
    /\ UNCHANGED <<cfg_vars, ing_vars, q_vars>>

\* a variant that indexes the chunks that did get a vector, then raises
EmbeddingMismatchIndexingSome ==
    /\ BatchPending
    /\ embed_calls' = embed_calls + 1
    /\ \E n \in {Len(current_batch) - 1, Len(current_batch) + 1} :
          /\ embed_ret' = [asked |-> Len(current_batch), got |-> n]
          /\ store' = collection_upsert(
                          store,
                          Entries(SubSeq(current_batch, 1, Min(n, Len(current_batch)))))
    /\ up_pc' = "raised"
    /\ up_error' = "mismatch"
    /\ UNCHANGED <<store0, up_chunks, up_bs, up_valid, up_i, up_total, returned_once>>
    /\ UNCHANGED <<cfg_vars, ing_vars, q_vars>>

\* lines 92-95: embed_texts returns fewer or more vectors than the batch
\* has chunks; ValueError is raised before the collection is touched
EmbeddingMismatch ==
    /\ BatchPending
    /\ embed_calls' = embed_calls + 1
    /\ \E n \in {Len(current_batch) - 1, Len(current_batch) + 1} :
          embed_ret' = [asked |-> Len(current_batch), got |-> n]
    /\ up_pc' = "raised"
    /\ up_error' = "mismatch"
    /\ UNCHANGED <<store, store0, up_chunks, up_bs, up_valid, up_i, up_total,
                   returned_once>>
    /\ UNCHANGED <<cfg_vars, ing_vars, q_vars>>

\* lines 101-106: the embedder returned one vector per text, and
\* collection.upsert raises, taking nothing of the batch
StoreRaises ==
    /\ BatchPending
    /\ embed_calls' = embed_calls + 1
    /\ embed_ret' = [asked |-> Len(current_batch), got |-> Len(current_batch)]
    /\ up_pc' = "raised"
    /\ up_error' = "store"
    /\ UNCHANGED <<store, store0, up_chunks, up_bs, up_valid, up_i, up_total,
                   returned_once>>
    /\ UNCHANGED <<cfg_vars, ing_vars, q_vars>>

-----------------------------------------------------------------------------
(* VectorStoreService.query.                                               *)

\* the top_k values queries are made with: the smallest the contract
\* allows and the default of the signature
TopKs == {1, 5}

\* the metadata filters queries are made with: none, or one on a
\* source_file that no entry has
Filters == {None, Some([source_file |-> OtherFile])}

\* lines 112-118: the body of query is `raise NotImplementedError`, for
\* every text, top_k and where, whatever the collection holds
query ==
    /\ up_pc # "running"
    /\ \E top_k \in TopKs, where \in Filters :
          query_call' = [pc     |-> "raised",
                         error  |-> "NotImplementedError",
                         top_k  |-> top_k,
                         where  |-> where,
                         result |-> <<>>]
    /\ UNCHANGED <<cfg_vars, ing_vars, up_vars>>

UpsertNext ==
    \/ UpsertStart
    \/ BatchUpserted
    \/ EmbedderRaises
    \/ EmbeddingMismatch
    \/ StoreRaises
    \/ query

\* The chunks the lists of the model are made of: what chunk_pages makes of
\* a two-page document whose pages have the same text and no page_number
\* and of a one-page document, and a chunk whose content is blank.
SampleDir ==
    [n \in Range(PdfNames) |->
        IF n = PdfNames[1]
        THEN <<[page_content |-> <<"x">>, page_number |-> None],
               [page_content |-> <<"x">>, page_number |-> None]>>
        ELSE <<[page_content |-> <<"x">>, page_number |-> Some(1)]>>]

SampleChunks ==
    LET s == [chunk_size |-> 200, chunk_overlap |-> 100]
    IN  Flatten([i \in 1..Len(PdfNames) |->
            chunk_pages(load_pdf_pages(SampleDir, Path(DocsDir, PdfNames[i])),
                        Path(DocsDir, PdfNames[i]), s)])

BlankChunk == [SampleChunks[1] EXCEPT !.content = <<" ">>]

ChunkUniverse == Range(SampleChunks) \cup {BlankChunk}

\* an entry left by an earlier indexing of the first sample chunk
StaleEntry == [Entry(SampleChunks[1]) EXCEPT !.embedding = Embedding(<<"o">>)]

\* a vector store, empty or holding an earlier entry, and the chunk list
\* the calls of the behaviour are made with; no ingestion and no
\* configuration step
UpsertInit ==
    /\ up_chunks \in SeqsUpTo(ChunkUniverse, MaxList)
    /\ store \in {{}, {StaleEntry}}
    /\ store0 = store
    /\ up_pc = "idle"
    /\ up_error = ""
    /\ up_bs = 1
    /\ up_valid = <<>>
    /\ up_i = 0
    /\ up_total = 0
    /\ embed_calls = 0
    /\ embed_ret = [asked |-> 0, got |-> 0]
    /\ returned_once = FALSE
    /\ query_call = NoQuery
    /\ dir = SampleDir
    /\ ing = [chunk_size |-> 200, chunk_overlap |-> 100]
    /\ IngIdle
    /\ CfgIdle

SpecUpsert == UpsertInit /\ [][UpsertNext]_vars

\* a process that starts with some environment; no ingestion run and no
\* vector store
ConfigInit ==
    /\ env \in [chunk_size : EnvChunkSizes, chunk_overlap : EnvChunkOverlaps]
    /\ settings = None
    /\ cfg_pc = "start"
    /\ cfg_entry = "none"
    /\ cfg_error = ""
    /\ service = None
    /\ dir = SampleDir
    /\ ing = [chunk_size |-> 200, chunk_overlap |-> 100]
    /\ IngIdle
    /\ UpIdle

SpecConfig == ConfigInit /\ [][ConfigNext]_vars

-----------------------------------------------------------------------------
(* Claims about the configuration, checked under SpecConfig.               *)

\* C6: for field values within the field bounds, Settings.load raises
\* 'chunk_overlap must be < chunk_size' when chunk_overlap >= chunk_size and
\* returns the settings otherwise; it never returns settings with
\* chunk_overlap >= chunk_size.
C6_LoadValidatesChunking ==
    cfg_entry = "load" =>
        LET v == FieldValues(env)
        IN  /\ (FieldsValid(v) /\ v.chunk_overlap >= v.chunk_size)
                  => (cfg_pc = "error" /\ cfg_error = ChunkingError /\ settings = None)
            /\ (FieldsValid(v) /\ v.chunk_overlap < v.chunk_size)
                  => (cfg_error = "" /\ settings = Some(v))
            /\ settings # None => settings[1].chunk_overlap < settings[1].chunk_size

\* Settings.load was given chunk_overlap = chunk_size within the field bounds
C6_Witness ==
    /\ cfg_entry = "load"
    /\ FieldsValid(FieldValues(env))
    /\ FieldValues(env).chunk_overlap = FieldValues(env).chunk_size
    /\ cfg_pc = "error"

\* C7: no IngestionService is constructed with chunk_overlap >= chunk_size,
\* whichever entry point starts the process.
C7_ServiceConfigValidated ==
    service # None => service[1].chunk_overlap < service[1].chunk_size

-----------------------------------------------------------------------------
(* Claims about the ingestion pipeline, checked under SpecIngest.          *)

Rows == file.rows

C2_DistinctChunkIds ==
    ing_pc = "done" =>
        \A i, j \in 1..Len(Rows) :
            (\/ Rows[i].metadata.source_path # Rows[j].metadata.source_path
             \/ Rows[i].metadata.page # Rows[j].metadata.page
             \/ Rows[i].metadata.chunk_index # Rows[j].metadata.chunk_index
             \/ Rows[i].content # Rows[j].content)
            => Rows[i].chunk_id # Rows[j].chunk_id

\* C8: when a load fails the run has aborted with the error, the documents
\* loaded are those up to the failing one and no later one, and the output
\* file is as it was when the run started.
C8_LoadFailureAborts ==
    (ing_pc = "failed" /\ ing_error = "load") =>
        /\ file = file0
        /\ next_pdf <= Len(pdfs)
        /\ loaded = SubSeq(pdfs, 1, next_pdf)

\* the second document fails to load after the first one gave chunks, in a
\* run that found the file of an earlier run
C8_Witness ==
    /\ ing_pc = "failed"
    /\ ing_error = "load"
    /\ Len(loaded) = 2
    /\ Len(pdfs) = 2
    /\ all_chunks # <<>>
    /\ file0.exists
    /\ file0.rows # <<>>

\* C9: the rows of the file a completed run wrote are in canonical order:
\* ascending file name, then the loader's page order, then ascending
\* chunk_index.
C9_CanonicalOrder ==
    ing_pc = "done" =>
        \A i, j \in 1..Len(Rows) :
            i < j =>
                LET a == Rows[i].metadata
                    b == Rows[j].metadata
                IN  \/ NameRank(a.source_file) < NameRank(b.source_file)
                    \/ /\ a.source_file = b.source_file
                       /\ a.page < b.page
                    \/ /\ a.source_file = b.source_file
                       /\ a.page = b.page
                       /\ a.chunk_index < b.chunk_index

\* a file with rows of two documents, of two pages of one document and of
\* two chunks of one page
C9_Witness ==
    /\ ing_pc = "done"
    /\ \E i, j \in 1..Len(Rows) : Rows[i].metadata.source_file # Rows[j].metadata.source_file
    /\ \E i, j \in 1..Len(Rows) :
          /\ Rows[i].metadata.source_file = Rows[j].metadata.source_file
          /\ Rows[i].metadata.page # Rows[j].metadata.page
    /\ \E i, j \in 1..Len(Rows) :
          /\ Rows[i].metadata.source_file = Rows[j].metadata.source_file
          /\ Rows[i].metadata.page = Rows[j].metadata.page
          /\ Rows[i].metadata.chunk_index # Rows[j].metadata.chunk_index

\* the chunk_index values, in order, of the chunks of one
\* (source_file, page_number) group
GroupIndexes(chunks, sf, pn) ==
    LET InGroup(c) == c.metadata.source_file = sf /\ c.metadata.page_number = pn
        group == SelectSeq(chunks, InGroup)
    IN  [k \in 1..Len(group) |-> group[k].metadata.chunk_index]

\* C10: in the chunks made by chunk_pages, the chunk_index values of every
\* (source_file, page_number) group are 0, 1, ..., n-1 in this order.
C10_ContiguousIndexes ==
    \A k \in 1..Len(all_chunks) :
        LET idx == GroupIndexes(all_chunks,
                                all_chunks[k].metadata.source_file,
                                all_chunks[k].metadata.page_number)
        IN  idx = [n \in 1..Len(idx) |-> n - 1]

\* C12: after a run that completed, the output file exists and holds one
\* row per chunk of the run, in the run's order, each with the chunk's id,
\* content and metadata, and no other row; over a directory without a PDF
\* it holds no row.
C12_FileHoldsThisRunOnly ==
    ing_pc = "done" =>
        /\ file.exists
        /\ Len(Rows) = Len(all_chunks)
        /\ \A k \in 1..Len(all_chunks) :
              /\ Rows[k].chunk_id = all_chunks[k].metadata.chunk_id
              /\ Rows[k].content = all_chunks[k].content
              /\ Rows[k].metadata = all_chunks[k].metadata
        /\ (\A n \in DOMAIN dir : ~IsPdf(n)) => Rows = <<>>

\* a run completed with chunks over an output path that held a record no
\* chunk of this run gives
C12_Witness ==
    /\ ing_pc = "done"
    /\ Rows # <<>>
    /\ \E k \in 1..Len(file0.rows) : file0.rows[k] \notin Range(Rows)

-----------------------------------------------------------------------------
(* Claims about upsert_chunks, checked under SpecUpsert.                   *)

\* C3: once a call of upsert_chunks with a list has returned, a further call
\* with that list, with any batch_size, adds no entry: no step of it changes
\* the keys of the store, nor their number.
C3_SecondCallAddsNothing ==
    [][returned_once => (Keys(store') = Keys(store)
                         /\ Cardinality(store') = Cardinality(store))]_vars

\* a second call, on a list with several valid chunks, has upserted a batch
\* of more than one chunk and returned
C3_Witness ==
    /\ returned_once
    /\ up_pc = "returned"
    /\ embed_calls >= 1
    /\ up_total >= 2
    /\ store0 = store
    /\ Cardinality(store) >= 2

\* C4: when the embedder returns a number of vectors different from the size
\* of the batch, the call fails and the step leaves the store as it was.
C4_MismatchWritesNothing ==
    [][(embed_calls' = embed_calls + 1 /\ embed_ret'.got # embed_ret'.asked)
          => (up_pc' = "raised" /\ store' = store)]_vars

\* a batch whose chunks are not in the store got a wrong number of vectors,
\* one at least
C4_Witness ==
    /\ up_pc = "raised"
    /\ up_error = "mismatch"
    /\ embed_ret.got >= 1
    /\ embed_ret.got # embed_ret.asked
    /\ \E k \in 1..Len(current_batch) : _chunk_id(current_batch[k]) \notin Keys(store)

\* the chunks of the batches before the one at offset i
Committed == SubSeq(up_valid, 1, Min(up_i, Len(up_valid)))

\* C5: batches are taken in order, one embedder call each, and when a batch
\* fails the store holds the prior contents and the entries of the batches
\* before it: every key of those, and no other.
C5_FailureKeepsEarlierBatches ==
    up_pc = "raised" =>
        /\ up_i = (embed_calls - 1) * up_bs
        /\ up_total = Len(Committed)
        /\ Keys(store) = Keys(store0) \cup {_chunk_id(Committed[k]) : k \in 1..Len(Committed)}
        /\ \A e \in store :
              IF \E k \in 1..Len(Committed) : e.id = _chunk_id(Committed[k])
              THEN \E k \in 1..Len(Committed) : e = Entry(Committed[k])
              ELSE e \in store0

\* the second batch failed after the first one added an entry, and the
\* failed batch holds a chunk that is not in the store
C5_Witness ==
    /\ up_pc = "raised"
    /\ embed_calls >= 2
    /\ Keys(store) # Keys(store0)
    /\ \E k \in 1..Len(current_batch) : _chunk_id(current_batch[k]) \notin Keys(store)

\* the positions of a chunk list whose content is neither empty nor
\* whitespace-only
NonBlankAt(chunks) == {k \in 1..Len(chunks) : ~IsBlank(chunks[k].content)}

\* C11: no chunk with empty or whitespace-only content is ever written to
\* the store; a call that returns, returns the number of the other chunks of
\* its list; and a call on an empty list or on a list of blank chunks only
\* returns 0 with no embedder call and the store as it was.
C11_BlankChunksSkipped ==
    /\ \A e \in store : ~IsBlank(e.document)
    /\ up_pc = "returned" => up_total = Cardinality(NonBlankAt(up_chunks))
    /\ (up_pc # "idle" /\ NonBlankAt(up_chunks) = {}) =>
          /\ up_pc = "returned"
          /\ up_total = 0
          /\ embed_calls = 0
          /\ store = store0

\* a call on a list that mixes blank and other chunks returned after
\* writing to the store
C11_Witness ==
    /\ up_pc = "returned"
    /\ NonBlankAt(up_chunks) # {}
    /\ Cardinality(NonBlankAt(up_chunks)) < Len(up_chunks)
    /\ up_total >= 1
    /\ store # store0

\* the entries of a collection a metadata filter lets through
Matching(st, where) ==
    {e \in st : where = None \/ e.metadata.source_file = where[1].source_file}

\* C13: a call of query with top_k >= 1 ends with a result of at most top_k
\* elements, and when the store is empty or no entry passes the filter it
\* returns the empty sequence and raises nothing.
C13_QueryWithoutMatchReturnsEmpty ==
    [][(query_call' # query_call /\ query_call'.top_k >= 1) =>
          /\ Len(query_call'.result) <= query_call'.top_k
          /\ Matching(store, query_call'.where) = {} =>
                (query_call'.pc = "returned" /\ query_call'.result = <<>>)]_vars

\* lines 176-181 of ingest_directory_to_jsonl: the chunks one run over a
\* directory accumulates when every document loads
ingest_chunks(d, s) ==
    LET ps == list_pdfs(d)
    IN  Flatten([i \in 1..Len(ps) |->
            chunk_pages(load_pdf_pages(d, ps[i]), ps[i], s)])

\* the chunk list of the call is what one ingestion run produces
IsRunOutput(chunks) ==
    \E d \in Dirs, s \in IngestSettings : chunks = ingest_chunks(d, s)

\* C14: when upsert_chunks, called on an empty store with the chunks of one
\* ingestion run, returns n, the store holds exactly n entries, and no two
\* non-blank chunks of the list have the same store key.
C14_ReturnedCountIsEntryCount ==
    (up_pc = "returned" /\ store0 = {} /\ IsRunOutput(up_chunks)) =>
        /\ Cardinality(store) = up_total
        /\ \A j, k \in NonBlankAt(up_chunks) :
              j # k => _chunk_id(up_chunks[j]) # _chunk_id(up_chunks[k])

=============================================================================
